---- MODULE Spec2Model ----
(***************************************************************************)
(* A model of samsung-setup: main.py drives an Android device through the  *)
(* adb wrappers of adb.py (connect, freeze, uninstall with APK backup,     *)
(* install from the Play Store by tapping the "Install" button).           *)
(*                                                                         *)
(* The program is sequential; pc is its position.  Every adb command is a  *)
(* call of run_adb_command, which either returns the command's stdout or   *)
(* raises CalledProcessError (check=True).  The device is the environment: *)
(* whether a command succeeds, what `adb devices`, `pm path` and the UI    *)
(* dump print are chosen nondeterministically; what `pm list packages`     *)
(* prints is computed from the device's package sets.                      *)
(***************************************************************************)
EXTENDS Integers, Sequences, FiniteSets, TLC

VARIABLES
    pc,         \* the program's position
    i,          \* index of the current package in the current batch loop
    installed,  \* device: the installed packages
    enabled,    \* device: the enabled packages
    log,        \* the adb commands run (and sleeps) for the current package, or by connect
    prints,     \* what the program has printed
    prompts,    \* the input() prompts issued
    conn,       \* the results of connect's is_connected() calls
    present,    \* whether the current package was on the device when checked
    attempts,   \* find_install_button: dump retrievals of the current call
    dumps,      \* find_install_button: the documents retrieved by the current call
    button,     \* find_install_button: the value returned by the current call
    exc,        \* the exception raised while handling the current package
    entry,      \* the function called: main() or adb.find_install_button()
    screens     \* device: the screens the UI may show during this run

vars == <<pc, i, installed, enabled, log, prints, prompts, conn, present,
          attempts, dumps, button, exc, entry, screens>>

(***************************************************************************)
(* Python's str operations, on TLC strings.                                *)
(***************************************************************************)

\* sub in s
Contains(sub, s) ==
    \E k \in 1..(Len(s) - Len(sub) + 1) : SubSeq(s, k, k + Len(sub) - 1) = sub

StartsWith(s, p) == Len(p) <= Len(s) /\ SubSeq(s, 1, Len(p)) = p

RECURSIVE Replace(_, _, _)
\* s.replace(old, new), old non-empty: leftmost occurrences, not overlapping
Replace(s, old, new) ==
    IF s = "" THEN ""
    ELSE IF StartsWith(s, old)
         THEN new \o Replace(SubSeq(s, Len(old) + 1, Len(s)), old, new)
         ELSE SubSeq(s, 1, 1) \o Replace(SubSeq(s, 2, Len(s)), old, new)

RECURSIVE LStrip(_, _)
LStrip(s, chars) ==
    IF s # "" /\ SubSeq(s, 1, 1) \in chars
    THEN LStrip(SubSeq(s, 2, Len(s)), chars) ELSE s

RECURSIVE RStrip(_, _)
RStrip(s, chars) ==
    IF s # "" /\ SubSeq(s, Len(s), Len(s)) \in chars
    THEN RStrip(SubSeq(s, 1, Len(s) - 1), chars) ELSE s

\* s.strip(chars), chars given as the set of its characters
Strip(s, chars) == RStrip(LStrip(s, chars), chars)

Whitespace == {" ", "\t", "\n", "\r"}

RECURSIVE SplitFrom(_, _, _)
\* the pieces of s split at sep, cur being the piece read so far
SplitFrom(s, sep, cur) ==
    IF s = "" THEN <<cur>>
    ELSE IF StartsWith(s, sep)
         THEN <<cur>> \o SplitFrom(SubSeq(s, Len(sep) + 1, Len(s)), sep, "")
         ELSE SplitFrom(SubSeq(s, 2, Len(s)), sep, cur \o SubSeq(s, 1, 1))

\* s.split(sep)
Split(s, sep) == SplitFrom(s, sep, "")

RECURSIVE LinesFrom(_, _)
LinesFrom(s, cur) ==
    IF s = "" THEN (IF cur = "" THEN <<>> ELSE <<cur>>)
    ELSE IF SubSeq(s, 1, 1) = "\n"
         THEN <<cur>> \o LinesFrom(SubSeq(s, 2, Len(s)), "")
         ELSE LinesFrom(SubSeq(s, 2, Len(s)), cur \o SubSeq(s, 1, 1))

\* s.splitlines(): no empty last line after a final line break
SplitLines(s) == LinesFrom(s, "")

Digits == <<"0", "1", "2", "3", "4", "5", "6", "7", "8", "9">>

DigitVal(c) == CHOOSE d \in 0..9 : Digits[d + 1] = c

IsDigits(s) ==
    /\ s # ""
    /\ \A k \in 1..Len(s) : \E d \in 1..10 : Digits[d] = SubSeq(s, k, k)

\* int(s) accepts an optional sign and decimal digits; else ValueError
IsIntLiteral(s) ==
    IF s # "" /\ SubSeq(s, 1, 1) \in {"-", "+"}
    THEN IsDigits(SubSeq(s, 2, Len(s))) ELSE IsDigits(s)

RECURSIVE NatOf(_)
NatOf(s) ==
    IF s = "" THEN 0
    ELSE 10 * NatOf(SubSeq(s, 1, Len(s) - 1)) + DigitVal(SubSeq(s, Len(s), Len(s)))

\* int(s) for s with IsIntLiteral(s)
IntOf(s) ==
    IF SubSeq(s, 1, 1) = "-" THEN 0 - NatOf(SubSeq(s, 2, Len(s)))
    ELSE IF SubSeq(s, 1, 1) = "+" THEN NatOf(SubSeq(s, 2, Len(s)))
    ELSE NatOf(s)

RECURSIVE NatStr(_)
NatStr(n) == IF n < 10 THEN Digits[n + 1] ELSE NatStr(n \div 10) \o Digits[(n % 10) + 1]

\* the decimal numeral the device prints for n
IntStr(n) == IF n < 0 THEN "-" \o NatStr(0 - n) ELSE NatStr(n)

(***************************************************************************)
(* The configuration (packages.py) and the device's answers.               *)
(***************************************************************************)

to_freezze == <<"com.c", "com.a.b">>

to_uninstall == <<"com.a", "com.a.b">>

to_install_from_playstore == <<"com.c", "com.a">>

Universe == {"com.a", "com.a.b", "com.c"}

RECURSIVE PmListOut(_)
\* stdout of `pm list packages`: one "package:<name>" line per package
PmListOut(pkgs) ==
    IF pkgs = {} THEN ""
    ELSE LET p == CHOOSE q \in pkgs : TRUE
         IN "package:" \o p \o "\n" \o PmListOut(pkgs \ {p})

\* `pm list packages FILTER` lists the packages whose name contains FILTER
PmListFiltered(pkgs, filter) == PmListOut({p \in pkgs : Contains(filter, p)})

\* what `adb devices` may print
DevicesOut ==
    { "List of devices attached\n\n",
      "List of devices attached\n10.0.0.2:5555\tdevice\n\n",
      "List of devices attached\n10.0.0.2:5555\toffline\n\n",
      "List of devices attached\n10.0.0.2:5555\tunauthorized\n\n" }

\* what `pm path PACKAGE` may print on success
PmPathOut ==
    { "",
      "package:/a/base.apk\n",
      "package:/a/base.apk\npackage:/a/split.apk\n" }

\* the answers given to input()
Url == "10.0.0.2:5555"

PairingUrl == "10.0.0.2:4444"

PairingCode == "123456"

Target == "/home/u/sapps"

(***************************************************************************)
(* adb.py: the commands and the functions computed from their output.      *)
(***************************************************************************)

Cmd(argv, ok) == [argv |-> argv, ok |-> ok]

PairCmd(url, code) == <<"adb", "pair", url, code>>

ConnectCmd(url) == <<"adb", "connect", url>>

DevicesCmd == <<"adb", "devices">>

PmPathCmd(p) == <<"adb", "shell", "pm", "path", p>>

PullCmd(apk, p) == <<"adb", "pull", apk, Target \o "/" \o p \o ".apk">>

ListCmd(p) == <<"adb", "shell", "pm", "list", "packages", p>>

ListEnabledCmd == <<"adb", "shell", "pm", "list", "packages", "-e">>

ClearCmd(p) == <<"adb", "shell", "pm", "clear", p>>

UninstallCmd(p) == <<"adb", "uninstall", p>>

UninstallUserCmd(p) == <<"adb", "uninstall", "--user", "0", p>>

DisableCmd(p) == <<"adb", "shell", "pm", "disable-user", p>>

TapCmd(x, y) == <<"adb", "shell", "input", "tap", IntStr(x), IntStr(y)>>

DumpCmd == <<"adb", "shell", "uiautomator", "dump">>

CatCmd == <<"adb", "shell", "cat", "/sdcard/window_dump.xml">>

NavigateCmd(p) ==
    <<"adb", "shell", "am", "start", "-a", "android.intent.action.VIEW",
      "-d", "market://details?id=" \o p>>

\* is_connected: any line after the first contains "device"
is_connected(stdout) ==
    LET lines == SplitLines(stdout)
    IN \E k \in 2..Len(lines) : Contains("device", lines[k])

\* is_installed: package_name in result.stdout
is_installed(p, stdout) == Contains(p, stdout)

\* is_enabled: package_name in result.stdout
is_enabled(p, stdout) == Contains(p, stdout)

\* extract: the first line of the stripped output without "package:"
ApkPath(stdout) == Split(Replace(Strip(stdout, Whitespace), "package:", ""), "\n")[1]

(***************************************************************************)
(* The UI dump.  A screen is what the device shows: a sequence of elements *)
(* in document order, each with its text and its rectangle.  uiautomator   *)
(* renders it as a document whose nodes carry the attributes text and      *)
(* bounds, the latter formatted "[x1,y1][x2,y2]".                          *)
(***************************************************************************)

MaxCoord == 2

El(text, rect) == [text |-> text, rect |-> rect]

\* the rectangles an Install button may have, odd and negative sums included
ButtonRects ==
    {<<x1, 20, x1 + 21, 40 + y>> : x1 \in {0 - 30, 0 - 4}, y \in 0..MaxCoord}
        \cup {<<10, 20, 30, 40>>}

NoMatchScreens ==
    { <<>>,
      <<El("", <<0, 0, 99, 99>>), El("install", <<10, 20, 30, 40>>)>>,
      <<El("Open", <<10, 20, 30, 40>>), El("Install now", <<1, 2, 3, 4>>)>> }

MatchScreens ==
    {<<El("install", <<1, 2, 3, 4>>), El("Install", r), El("Install", <<50, 60, 70, 80>>)>> :
        r \in ButtonRects}

\* the screens of a run of main(): the Play Store page, loading or loaded
PlayStoreScreens ==
    { <<El("", <<0, 0, 99, 99>>), El("install", <<10, 20, 30, 40>>)>>,
      <<El("install", <<1, 2, 3, 4>>), El("Install", <<(0 - 30), 20, (0 - 9), 41>>),
        El("Install", <<50, 60, 70, 80>>)>> }

FmtBounds(r) ==
    "[" \o IntStr(r[1]) \o "," \o IntStr(r[2]) \o "][" \o IntStr(r[3]) \o ","
        \o IntStr(r[4]) \o "]"

\* the parsed document of a screen
Render(scr) ==
    [wf |-> TRUE,
     nodes |-> [k \in 1..Len(scr) |-> [text |-> scr[k].text, bounds |-> FmtBounds(scr[k].rect)]]]

\* a dump that is not well-formed XML
Malformed == [wf |-> FALSE, nodes |-> <<>>]

Docs == {Render(scr) : scr \in screens} \cup {Malformed}

\* next(node for node in nodes if node.attrib.get("text") == "Install"), 0 for None
FirstInstall(nodes) ==
    LET hits == {k \in 1..Len(nodes) : nodes[k].text = "Install"}
    IN IF hits = {} THEN 0 ELSE CHOOSE k \in hits : \A j \in hits : k <= j

\* bounds.replace("][", ",").strip("[]").split(",")
BoundsFields(b) == Split(Strip(Replace(b, "][", ","), {"[", "]"}), ",")

\* x1, y1, x2, y2 = map(int, ...) raises ValueError unless four integers
BoundsOk(b) ==
    LET f == BoundsFields(b)
    IN Len(f) = 4 /\ \A k \in 1..4 : IsIntLiteral(f[k])

\* C6's mutant: the division rounds toward zero
Center_Truncating(b) ==
    LET f == BoundsFields(b)
        sx == IntOf(f[1]) + IntOf(f[3])
        sy == IntOf(f[2]) + IntOf(f[4])
    IN <<IF sx < 0 THEN 0 - ((0 - sx) \div 2) ELSE sx \div 2,
         IF sy < 0 THEN 0 - ((0 - sy) \div 2) ELSE sy \div 2>>

\* ((x1 + x2) // 2, (y1 + y2) // 2)
Center(b) ==
    LET f == BoundsFields(b)
    IN <<(IntOf(f[1]) + IntOf(f[3])) \div 2, (IntOf(f[2]) + IntOf(f[4])) \div 2>>

\* C5's mutant: one attempt more
max_attempts_plus_one == 5 + 1

max_attempts == 5

Unset == [kind |-> "unset", x |-> 0, y |-> 0]

None == [kind |-> "None", x |-> 0, y |-> 0]

Point(c) == [kind |-> "point", x |-> c[1], y |-> c[2]]

NoExc == [kind |-> "none", site |-> "none"]

(***************************************************************************)
(* Exceptions.  An exception raised at position pc propagates to the       *)
(* nearest enclosing handler: the bare except of the batch loop when pc is *)
(* inside its try block, else it leaves main() (or the function called).   *)
(***************************************************************************)

\* C2's mutant: extract is called before uninstall's try block
InTry_ExtractOutside(p) ==
    p \in {"f_clear", "f_disable_uninstall", "f_disable_user",
           "u_clear", "u_uninstall", "u_uninstall_user",
           "i_navigate", "i_find", "i_click"}

\* the positions inside the try blocks of freeze, uninstall, install_from_playstore
InTry(p) ==
    p \in {"f_clear", "f_disable_uninstall", "f_disable_user",
           "u_clear", "u_extract", "u_uninstall", "u_uninstall_user",
           "i_navigate", "i_find", "i_click"}

\* the loop a position belongs to
LoopHead(p) ==
    IF SubSeq(p, 1, 2) = "f_" THEN "f_loop"
    ELSE IF SubSeq(p, 1, 2) = "u_" THEN "u_loop" ELSE "i_loop"

Raise(kind) ==
    /\ exc' = [kind |-> kind, site |-> pc]
    /\ IF entry = "find_install_button"
       THEN pc' = "raised" /\ UNCHANGED <<prints, i>>
       ELSE IF InTry(pc)
            THEN /\ prints' = Append(prints, "Failed!!!")
                 /\ i' = i + 1
                 /\ pc' = LoopHead(pc)
            ELSE pc' = "crashed" /\ UNCHANGED <<prints, i>>

\* the else branch of a batch loop's try: the package is done
Done(marker) ==
    /\ prints' = Append(prints, marker)
    /\ i' = i + 1
    /\ pc' = LoopHead(pc)
    /\ UNCHANGED exc

\* the program goes on at position p
Goto(p) == pc' = p /\ UNCHANGED <<prints, i, exc>>

(***************************************************************************)
(* main.connect                                                            *)
(***************************************************************************)

\* C4's mutant: connect asks for the URL whether connected or not
AfterCheck1_Always(connected) == "c_url"

\* where connect goes after its first is_connected()
AfterCheck1(connected) == IF connected THEN "f_loop" ELSE "c_url"

\* where connect goes after its second is_connected()
AfterCheck2(connected) == IF connected THEN "f_loop" ELSE "c_pair"

ConnectCheck1 ==
    /\ pc = "c_check1"
    /\ \E ok \in BOOLEAN, out \in DevicesOut :
        /\ log' = Append(log, Cmd(DevicesCmd, ok))
        /\ IF ok
           THEN /\ conn' = Append(conn, is_connected(out))
                /\ Goto(AfterCheck1(is_connected(out)))
           ELSE conn' = conn /\ Raise("CalledProcessError")
    /\ UNCHANGED <<installed, enabled, prompts, present, attempts, dumps, button,
                   entry, screens>>

ConnectUrl ==
    /\ pc = "c_url"
    /\ prompts' = Append(prompts, "URL: ")
    /\ \E ok \in BOOLEAN :
        /\ log' = Append(log, Cmd(ConnectCmd(Url), ok))
        /\ IF ok THEN Goto("c_check2") ELSE Raise("CalledProcessError")
    /\ UNCHANGED <<installed, enabled, conn, present, attempts, dumps, button,
                   entry, screens>>

ConnectCheck2 ==
    /\ pc = "c_check2"
    /\ \E ok \in BOOLEAN, out \in DevicesOut :
        /\ log' = Append(log, Cmd(DevicesCmd, ok))
        /\ IF ok
           THEN /\ conn' = Append(conn, is_connected(out))
                /\ Goto(AfterCheck2(is_connected(out)))
           ELSE conn' = conn /\ Raise("CalledProcessError")
    /\ UNCHANGED <<installed, enabled, prompts, present, attempts, dumps, button,
                   entry, screens>>

ConnectPair ==
    /\ pc = "c_pair"
    /\ prompts' = prompts \o <<"Pairing URL: ", "Pairing code: ">>
    /\ prints' = Append(prints, "Seems like the device isn't paired.")
    /\ \E ok \in BOOLEAN :
        /\ log' = Append(log, Cmd(PairCmd(PairingUrl, PairingCode), ok))
        /\ exc' = IF ok THEN exc ELSE [kind |-> "CalledProcessError", site |-> pc]
        /\ pc' = IF ok THEN "c_connect2" ELSE "crashed"
    /\ UNCHANGED <<i, installed, enabled, conn, present, attempts, dumps, button,
                   entry, screens>>

ConnectAgain ==
    /\ pc = "c_connect2"
    /\ \E ok \in BOOLEAN :
        /\ log' = Append(log, Cmd(ConnectCmd(Url), ok))
        /\ IF ok THEN Goto("f_loop") ELSE Raise("CalledProcessError")
    /\ UNCHANGED <<installed, enabled, prompts, conn, present, attempts, dumps,
                   button, entry, screens>>

(***************************************************************************)
(* main.freeze, with adb.is_enabled, adb.clear_data and adb.disable        *)
(***************************************************************************)

FreezeCheck ==
    /\ pc = "f_loop" /\ i <= Len(to_freezze)
    /\ LET p == to_freezze[i] IN
       \E ok \in BOOLEAN :
        /\ log' = <<Cmd(ListEnabledCmd, ok)>>
        /\ present' = (p \in enabled)
        /\ IF ~ok THEN Raise("CalledProcessError")
           ELSE IF is_enabled(p, PmListOut(enabled))
                THEN /\ prints' = Append(prints, "Disabling: " \o p \o "... ")
                     /\ pc' = "f_clear" /\ i' = i /\ exc' = NoExc
                ELSE pc' = "f_loop" /\ i' = i + 1 /\ exc' = NoExc /\ prints' = prints
    /\ UNCHANGED <<installed, enabled, prompts, conn, attempts, dumps, button,
                   entry, screens>>

FreezeEnd ==
    /\ pc = "f_loop" /\ i > Len(to_freezze)
    /\ pc' = "u_mkdir" /\ i' = 1 /\ log' = <<>>
    /\ UNCHANGED <<installed, enabled, prints, prompts, conn, present,
                   attempts, dumps, button, exc, entry, screens>>

FreezeClear ==
    /\ pc = "f_clear"
    /\ \E ok \in BOOLEAN :
        /\ log' = Append(log, Cmd(ClearCmd(to_freezze[i]), ok))
        /\ IF ok THEN Goto("f_disable_uninstall") ELSE Raise("CalledProcessError")
    /\ UNCHANGED <<installed, enabled, prompts, conn, present, attempts, dumps,
                   button, entry, screens>>

\* C10's mutant: no except clause, the failed uninstall propagates after the finally
DisableTry_Propagates(ok) ==
    IF ok THEN Goto("f_disable_user") ELSE Raise("CalledProcessError")

\* adb.disable: try: uninstall; except: pass; finally: disable-user
DisableTry(ok) == Goto("f_disable_user")

DisableUninstall ==
    /\ pc = "f_disable_uninstall"
    /\ LET p == to_freezze[i] IN
       \E ok \in BOOLEAN :
        /\ log' = Append(log, Cmd(UninstallCmd(p), ok))
        /\ installed' = IF ok THEN installed \ {p} ELSE installed
        /\ enabled' = IF ok THEN enabled \ {p} ELSE enabled
        /\ DisableTry(ok)
    /\ UNCHANGED <<prompts, conn, present, attempts, dumps, button, entry, screens>>

DisableUser ==
    /\ pc = "f_disable_user"
    /\ LET p == to_freezze[i] IN
       \E ok \in BOOLEAN :
        /\ log' = Append(log, Cmd(DisableCmd(p), ok))
        /\ enabled' = IF ok THEN enabled \ {p} ELSE enabled
        /\ IF ok THEN Done("Done!") ELSE Raise("CalledProcessError")
    /\ UNCHANGED <<installed, prompts, conn, present, attempts, dumps, button,
                   entry, screens>>

(***************************************************************************)
(* main.uninstall, with adb.is_installed, adb.clear_data, adb.extract and  *)
(* adb.uninstall                                                           *)
(***************************************************************************)

\* target.mkdir(parents=True, exist_ok=True), before the loop and its try
UninstallMkdir ==
    /\ pc = "u_mkdir"
    /\ \E ok \in BOOLEAN : IF ok THEN Goto("u_loop") ELSE Raise("OSError")
    /\ UNCHANGED <<installed, enabled, log, prompts, conn, present, attempts,
                   dumps, button, entry, screens>>

UninstallCheck ==
    /\ pc = "u_loop" /\ i <= Len(to_uninstall)
    /\ LET p == to_uninstall[i] IN
       \E ok \in BOOLEAN :
        /\ log' = <<Cmd(ListCmd(p), ok)>>
        /\ present' = (p \in installed)
        /\ IF ~ok THEN Raise("CalledProcessError")
           ELSE IF is_installed(p, PmListFiltered(installed, p))
                THEN /\ prints' = Append(prints, "Uninstalling: " \o p \o "... ")
                     /\ pc' = "u_clear" /\ i' = i /\ exc' = NoExc
                ELSE pc' = "u_loop" /\ i' = i + 1 /\ exc' = NoExc /\ prints' = prints
    /\ UNCHANGED <<installed, enabled, prompts, conn, attempts, dumps, button,
                   entry, screens>>

UninstallEnd ==
    /\ pc = "u_loop" /\ i > Len(to_uninstall)
    /\ pc' = "i_loop" /\ i' = 1 /\ log' = <<>>
    /\ UNCHANGED <<installed, enabled, prints, prompts, conn, present,
                   attempts, dumps, button, exc, entry, screens>>

UninstallClear ==
    /\ pc = "u_clear"
    /\ \E ok \in BOOLEAN :
        /\ log' = Append(log, Cmd(ClearCmd(to_uninstall[i]), ok))
        /\ IF ok THEN Goto("u_extract") ELSE Raise("CalledProcessError")
    /\ UNCHANGED <<installed, enabled, prompts, conn, present, attempts, dumps,
                   button, entry, screens>>

\* extract: `if apk_path:` pulls only when the path is not empty
ShouldPull(apk_path) == apk_path # ""

\* adb.extract: pm path, then the pull of the first path printed
Extract ==
    /\ pc = "u_extract"
    /\ LET p == to_uninstall[i] IN
       \E okPath \in BOOLEAN, out \in PmPathOut, okPull \in BOOLEAN :
        LET apk_path == ApkPath(out)
            pull == okPath /\ ShouldPull(apk_path)
        IN /\ log' = log \o <<Cmd(PmPathCmd(p), okPath)>>
                         \o (IF pull THEN <<Cmd(PullCmd(apk_path, p), okPull)>> ELSE <<>>)
           /\ IF okPath /\ (pull => okPull)
              THEN Goto("u_uninstall") ELSE Raise("CalledProcessError")
    /\ UNCHANGED <<installed, enabled, prompts, conn, present, attempts, dumps,
                   button, entry, screens>>

\* adb.uninstall: try: uninstall; except: pass; finally: uninstall --user 0
UninstallTry(ok) == Goto("u_uninstall_user")

UninstallAll ==
    /\ pc = "u_uninstall"
    /\ LET p == to_uninstall[i] IN
       \E ok \in BOOLEAN :
        /\ log' = Append(log, Cmd(UninstallCmd(p), ok))
        /\ installed' = IF ok THEN installed \ {p} ELSE installed
        /\ enabled' = IF ok THEN enabled \ {p} ELSE enabled
        /\ UninstallTry(ok)
    /\ UNCHANGED <<prompts, conn, present, attempts, dumps, button, entry, screens>>

UninstallUser ==
    /\ pc = "u_uninstall_user"
    /\ LET p == to_uninstall[i] IN
       \E ok \in BOOLEAN :
        /\ log' = Append(log, Cmd(UninstallUserCmd(p), ok))
        /\ installed' = IF ok THEN installed \ {p} ELSE installed
        /\ enabled' = IF ok THEN enabled \ {p} ELSE enabled
        /\ IF ok THEN Done("Done") ELSE Raise("CalledProcessError")
    /\ UNCHANGED <<prompts, conn, present, attempts, dumps, button, entry, screens>>

(***************************************************************************)
(* main.install_from_playstore, with adb.install_from_playstore,           *)
(* adb.navigate_playstore, adb.click_install_in_playstore, adb.tap         *)
(***************************************************************************)

InstallCheck ==
    /\ pc = "i_loop" /\ i <= Len(to_install_from_playstore)
    /\ LET p == to_install_from_playstore[i] IN
       \E ok \in BOOLEAN :
        /\ log' = <<Cmd(ListCmd(p), ok)>>
        /\ present' = (p \in installed)
        /\ IF ~ok THEN Raise("CalledProcessError")
           ELSE IF is_installed(p, PmListFiltered(installed, p))
                THEN pc' = "i_loop" /\ i' = i + 1 /\ exc' = NoExc /\ prints' = prints
                ELSE /\ prints' = Append(prints, "Installing: " \o p \o "... ")
                     /\ pc' = "i_navigate" /\ i' = i /\ exc' = NoExc
    /\ attempts' = 0 /\ dumps' = <<>> /\ button' = Unset
    /\ UNCHANGED <<installed, enabled, prompts, conn, entry, screens>>

InstallEnd ==
    /\ pc = "i_loop" /\ i > Len(to_install_from_playstore)
    /\ pc' = "done"
    /\ UNCHANGED <<i, installed, enabled, log, prints, prompts, conn, present,
                   attempts, dumps, button, exc, entry, screens>>

\* navigate_playstore, then the call of find_install_button
Navigate ==
    /\ pc = "i_navigate"
    /\ \E ok \in BOOLEAN :
        /\ log' = Append(log, Cmd(NavigateCmd(to_install_from_playstore[i]), ok))
        /\ IF ok THEN Goto("i_find") ELSE Raise("CalledProcessError")
    /\ attempts' = 0 /\ dumps' = <<>> /\ button' = Unset
    /\ UNCHANGED <<installed, enabled, prompts, conn, present, entry, screens>>

\* sleep(1), recorded with the commands
Sleep == [argv |-> <<"sleep", "1">>, ok |-> TRUE]

\* find_install_button returns v
Return(v) ==
    /\ button' = v
    /\ pc' = IF entry = "find_install_button" THEN "returned" ELSE "i_click"
    /\ UNCHANGED <<prints, i, exc>>

\* C9's mutant: a parse error is taken for "not found"
Parsed_Swallowing(doc) ==
    IF ~doc.wf THEN "not found"
    ELSE IF FirstInstall(doc.nodes) = 0 THEN "not found" ELSE "found"

\* what ElementTree.fromstring and the search make of a retrieved document
Parsed(doc) ==
    IF ~doc.wf THEN "ParseError"
    ELSE IF FirstInstall(doc.nodes) = 0 THEN "not found" ELSE "found"

\* one pass of find_install_button's loop: sleep, dump, cat, parse, search
FindAttempt ==
    /\ pc = "i_find" /\ attempts < max_attempts
    /\ attempts' = attempts + 1
    /\ \E okDump \in BOOLEAN, okCat \in BOOLEAN, doc \in Docs :
        /\ log' = log \o <<Sleep, Cmd(DumpCmd, okDump)>>
                      \o (IF okDump THEN <<Cmd(CatCmd, okCat)>> ELSE <<>>)
        /\ IF ~(okDump /\ okCat)
           THEN dumps' = dumps /\ button' = button /\ Raise("CalledProcessError")
           ELSE /\ dumps' = Append(dumps, doc)
                /\ IF Parsed(doc) = "ParseError"
                   THEN button' = button /\ Raise("ParseError")
                   ELSE IF Parsed(doc) = "not found"
                        THEN button' = button /\ Goto("i_find")
                        ELSE LET b == doc.nodes[FirstInstall(doc.nodes)].bounds
                             IN IF BoundsOk(b) THEN Return(Point(Center(b)))
                                ELSE button' = button /\ Raise("ValueError")
    /\ UNCHANGED <<installed, enabled, prompts, conn, present, entry, screens>>

\* the loop's else branch: return None
FindExhausted ==
    /\ pc = "i_find" /\ attempts >= max_attempts
    /\ Return(None)
    /\ UNCHANGED <<installed, enabled, log, prompts, conn, present, attempts,
                   dumps, entry, screens>>

\* C7's mutant: the caller does not notice None
Unpacks_Anything(v) == TRUE

\* x, y = find_install_button() raises TypeError when the value is None
Unpacks(v) == v.kind = "point"

\* click_install_in_playstore: unpack the button, tap it
ClickInstall ==
    /\ pc = "i_click"
    /\ IF Unpacks(button)
       THEN \E ok \in BOOLEAN :
            /\ log' = Append(log, Cmd(TapCmd(button.x, button.y), ok))
            /\ IF ok THEN Done("Done") ELSE Raise("CalledProcessError")
       ELSE log' = log /\ Raise("TypeError")
    /\ UNCHANGED <<installed, enabled, prompts, conn, present, attempts, dumps,
                   button, entry, screens>>

(***************************************************************************)
(* The specifications: a run of main(), and a call of find_install_button  *)
(***************************************************************************)

Init ==
    /\ pc = "c_check1"
    /\ i = 1
    /\ installed \in SUBSET Universe
    /\ enabled \in SUBSET installed
    /\ log = <<>>
    /\ prints = <<>>
    /\ prompts = <<>>
    /\ conn = <<>>
    /\ present = FALSE
    /\ attempts = 0
    /\ dumps = <<>>
    /\ button = Unset
    /\ exc = NoExc
    /\ entry = "main"
    /\ screens = PlayStoreScreens

Next ==
    \/ ConnectCheck1 \/ ConnectUrl \/ ConnectCheck2 \/ ConnectPair \/ ConnectAgain
    \/ FreezeCheck \/ FreezeEnd \/ FreezeClear \/ DisableUninstall \/ DisableUser
    \/ UninstallMkdir \/ UninstallCheck \/ UninstallEnd \/ UninstallClear \/ Extract
    \/ UninstallAll \/ UninstallUser
    \/ InstallCheck \/ InstallEnd \/ Navigate \/ FindAttempt \/ FindExhausted
    \/ ClickInstall

Spec == Init /\ [][Next]_vars

InitLocator ==
    /\ pc = "i_find"
    /\ i = 1
    /\ installed = {}
    /\ enabled = {}
    /\ log = <<>>
    /\ prints = <<>>
    /\ prompts = <<>>
    /\ conn = <<>>
    /\ present = FALSE
    /\ attempts = 0
    /\ dumps = <<>>
    /\ button = Unset
    /\ exc = NoExc
    /\ entry = "find_install_button"
    /\ screens = NoMatchScreens \cup MatchScreens

NextLocator == FindAttempt \/ FindExhausted

SpecLocator == InitLocator /\ [][NextLocator]_vars

(***************************************************************************)
(* What the claims speak of                                                *)
(***************************************************************************)

LastPrint == IF prints = <<>> THEN "" ELSE prints[Len(prints)]

\* the log is that of an iteration of freeze's loop, of uninstall's loop
FreezeLog == SubSeq(pc, 1, 2) = "f_" /\ log # <<>> /\ log[1].argv = ListEnabledCmd

UninstallLog == SubSeq(pc, 1, 2) = "u_" /\ log # <<>>

\* the package a loop's check was run for
Checked == log[1].argv[6]

IsPull(argv, p) ==
    Len(argv) = 4 /\ argv[2] = "pull" /\ argv[4] = Target \o "/" \o p \o ".apk"

\* the commands main.uninstall runs for package p after the check
Touches(argv, p) ==
    \/ argv \in {ClearCmd(p), PmPathCmd(p), UninstallCmd(p), UninstallUserCmd(p)}
    \/ IsPull(argv, p)

Ran(c) == \E k \in DOMAIN log : log[k] = c

(***************************************************************************)
(* C1.  main.uninstall skips every package of its list that is not on the  *)
(* device: once the check has run for a package that is not installed, no  *)
(* clear-data, pm path, pull or uninstall command is run for it.           *)
(* The code does not: is_installed looks for the name as a substring of    *)
(* the filtered listing, which also lists "com.a.b" for "com.a".           *)
(***************************************************************************)
C1_AbsentPackageSkipped ==
    (UninstallLog /\ ~present) =>
        \A k \in DOMAIN log : ~Touches(log[k].argv, Checked)

(***************************************************************************)
(* C3.  adb.uninstall runs the --user 0 uninstall only after a failed      *)
(* all-users uninstall, and a package whose all-users uninstall succeeded  *)
(* is reported done.  The code runs the second command in a finally block, *)
(* after a successful first one too.                                       *)
(***************************************************************************)
C3_PerUserOnlyAfterFailure ==
    (UninstallLog /\ present) =>
        /\ \A k \in DOMAIN log :
              log[k].argv = UninstallUserCmd(Checked) =>
                  k > 1 /\ log[k - 1].argv = UninstallCmd(Checked) /\ ~log[k - 1].ok
        /\ (pc = "u_loop" /\ Ran(Cmd(UninstallCmd(Checked), TRUE))) => LastPrint = "Done"

(***************************************************************************)
(* C8.  In main.uninstall an uninstall command is run for a package only   *)
(* after a pull of its APK into the backup directory has succeeded.  The   *)
(* code uninstalls also when pm path printed nothing and nothing was       *)
(* pulled.                                                                 *)
(***************************************************************************)
C8_BackupBeforeUninstall ==
    (UninstallLog /\ present) =>
        \A k \in DOMAIN log :
            log[k].argv \in {UninstallCmd(Checked), UninstallUserCmd(Checked)} =>
                \E j \in 1..(k - 1) : IsPull(log[j].argv, Checked) /\ log[j].ok

(***************************************************************************)
(* C2.  As claimed: no failure while a batch loop handles a package stops  *)
(* the batch, the failure of the is_enabled / is_installed check included. *)
(* The checks run before the try block, so their failure leaves main().    *)
(***************************************************************************)
C2_NoFailureStopsBatch ==
    ~(pc = "crashed" /\ exc.site \in {"f_loop", "u_loop", "i_loop"})

\* the commands and calls the three loops run after the check:
\* clear_data and disable; clear_data, extract and uninstall;
\* install_from_playstore (navigate, find_install_button, the unpacking, tap)
C2_AfterCheck ==
    {"f_clear", "f_disable_user", "u_clear", "u_extract", "u_uninstall_user",
     "i_navigate", "i_find", "i_click"}

(***************************************************************************)
(* C2, amended.  A failure of anything a batch loop runs for a package     *)
(* after the check is caught: the failure marker is printed, the loop goes *)
(* on with the next package and main() does not stop there.  main() stops  *)
(* in a batch loop only by a failure of the is_enabled / is_installed      *)
(* check, which is not caught; a run that ends has gone through all three  *)
(* lists.                                                                  *)
(***************************************************************************)
C2_FailuresAfterCheckCaught ==
    /\ (exc.kind # "none" /\ exc.site \in C2_AfterCheck) =>
          /\ pc \in {"f_loop", "u_mkdir", "u_loop", "i_loop", "done"}
          /\ LastPrint = "Failed!!!"
    /\ pc = "crashed" =>
          /\ exc.site \in {"c_check1", "c_url", "c_check2", "c_pair", "c_connect2",
                           "u_mkdir", "f_loop", "u_loop", "i_loop"}
          /\ exc.site \in {"f_loop", "u_loop", "i_loop"} =>
                /\ exc.kind = "CalledProcessError"
                /\ Len(log) = 1 /\ ~log[1].ok
                /\ SubSeq(log[1].argv, 1, 5) = <<"adb", "shell", "pm", "list", "packages">>
    /\ pc = "done" => i = Len(to_install_from_playstore) + 1

\* a package failed, a later one was handled, and main() ended
C2_Witness ==
    /\ pc = "done"
    /\ \E j \in DOMAIN prints : \E k \in DOMAIN prints :
          j < k /\ prints[j] = "Failed!!!" /\ prints[k] \in {"Done", "Done!"}

\* the log is still that of connect
ConnectLog == log # <<>> /\ log[1].argv = DevicesCmd

(***************************************************************************)
(* C4.  main.connect prompts for nothing and runs no connect or pair       *)
(* command when the first is_connected() is true; it prompts for the URL   *)
(* only when that call was false, and for the pairing URL and code, then   *)
(* pairs and connects again, only when the second call was false too.      *)
(***************************************************************************)
C4_ConnectPromptsOnlyWhenNeeded ==
    /\ prompts \in {<<>>, <<"URL: ">>, <<"URL: ", "Pairing URL: ", "Pairing code: ">>}
    /\ (conn # <<>> /\ conn[1]) =>
          /\ prompts = <<>>
          /\ conn = <<TRUE>>
          /\ ConnectLog => log = <<Cmd(DevicesCmd, TRUE)>>
    /\ prompts # <<>> => (conn # <<>> /\ ~conn[1])
    /\ Len(prompts) = 3 => conn = <<FALSE, FALSE>>
    /\ ConnectLog =>
          \A k \in DOMAIN log :
              /\ log[k].argv = ConnectCmd(Url) =>
                    /\ conn # <<>> /\ ~conn[1]
                    /\ prompts # <<>>
                    /\ k > 2 => (log[k - 1].argv = PairCmd(PairingUrl, PairingCode)
                                 /\ log[k - 1].ok)
              /\ log[k].argv = PairCmd(PairingUrl, PairingCode) =>
                    conn = <<FALSE, FALSE>> /\ Len(prompts) = 3 /\ k = 4

\* the device was connected: connect has returned without a prompt
C4_Witness ==
    pc = "f_loop" /\ conn = <<TRUE>> /\ prompts = <<>> /\ ConnectLog /\ Len(log) = 1

NoMatchDoc(d) == d.wf /\ \A k \in DOMAIN d.nodes : d.nodes[k].text # "Install"

AllNoMatch == \A k \in DOMAIN dumps : NoMatchDoc(dumps[k])

Count(argv) == Cardinality({k \in DOMAIN log : log[k].argv = argv})

(***************************************************************************)
(* C5.  find_install_button, while every dump it retrieves is well-formed  *)
(* and has no node with the text "Install", retrieves 5 dumps, each after  *)
(* a sleep, then returns None without raising; it never retrieves more     *)
(* than 5, and it retrieves no more after the first dump with such a node. *)
(***************************************************************************)
C5_FiveAttemptsThenNone ==
    /\ attempts <= 5 /\ Len(dumps) <= 5 /\ Count(CatCmd) <= 5 /\ Count(DumpCmd) <= 5
    /\ button = None =>
          /\ pc = "returned" /\ exc = NoExc
          /\ AllNoMatch /\ Len(dumps) = 5 /\ attempts = 5 /\ Count(CatCmd) = 5
    /\ (AllNoMatch /\ exc.kind # "CalledProcessError") =>
          /\ exc = NoExc /\ pc # "raised"
          /\ Len(dumps) = attempts
          /\ IF pc = "returned" THEN button = None /\ Len(dumps) = 5
             ELSE pc = "i_find" /\ button = Unset
    /\ (pc = "i_find" /\ attempts = 5) => (~ENABLED FindAttempt /\ ENABLED FindExhausted)
    /\ (pc = "i_find" /\ attempts < 5) => ~ENABLED FindExhausted
    /\ \A k \in DOMAIN dumps : ~NoMatchDoc(dumps[k]) => (k = Len(dumps) /\ pc # "i_find")
    /\ \A k \in DOMAIN log : log[k].argv = DumpCmd => (k > 1 /\ log[k - 1] = Sleep)
    /\ Count(Sleep.argv) = attempts

\* five dumps without the button, two different ones among them, and None returned
C5_Witness ==
    /\ pc = "returned" /\ button = None /\ Len(dumps) = 5
    /\ dumps[1] # dumps[2]
    /\ \E k \in DOMAIN dumps : \E j \in DOMAIN dumps[k].nodes : dumps[k].nodes[j].text = "install"

(***************************************************************************)
(* C6.  When the dump retrieved last has a node whose text is exactly      *)
(* "Install", find_install_button returns the centre of the rectangle of   *)
(* the first such node in document order, ((x1+x2) div 2, (y1+y2) div 2)   *)
(* rounded down; a node "install", and later "Install" nodes, do not       *)
(* count.  "[10,20][30,40]" gives (20, 30).                                *)
(***************************************************************************)
C6_CentreOfFirstInstallNode ==
    /\ \A scr \in screens :
          LET hits == {k \in DOMAIN scr : scr[k].text = "Install"}
          IN (dumps # <<>> /\ dumps[Len(dumps)] = Render(scr) /\ hits # {}) =>
                LET r == scr[CHOOSE k \in hits : \A j \in hits : k <= j].rect
                IN /\ pc = "returned"
                   /\ button = [kind |-> "point",
                                x |-> (r[1] + r[3]) \div 2,
                                y |-> (r[2] + r[4]) \div 2]
    /\ button.kind = "point" => (dumps # <<>> /\ ~NoMatchDoc(dumps[Len(dumps)]))
    /\ Center("[10,20][30,40]") = <<20, 30>>

\* the button found at the third attempt, left of the screen's edge: the sum of
\* its x coordinates is odd and negative, and a node "install" comes before it
C6_Witness ==
    /\ pc = "returned" /\ Len(dumps) = 3
    /\ button = [kind |-> "point", x |-> 0 - 20, y |-> 31]
    /\ dumps[3].nodes[1].text = "install"

(***************************************************************************)
(* C9.  A dump that does not parse ends find_install_button with the parse *)
(* error at that attempt: no dump is retrieved after it and None is not    *)
(* returned.  Only "not found" makes the loop go on.                       *)
(***************************************************************************)
C9_MalformedDumpIsFatal ==
    /\ \A k \in DOMAIN dumps :
          ~dumps[k].wf =>
              /\ k = Len(dumps) /\ attempts = k
              /\ pc = "raised"
              /\ exc = [kind |-> "ParseError", site |-> "i_find"]
              /\ button = Unset
    /\ exc.kind = "ParseError" => (dumps # <<>> /\ ~dumps[Len(dumps)].wf)
    /\ (pc = "i_find" /\ attempts > 0) => (AllNoMatch /\ exc = NoExc)

\* the second dump retrieved was malformed
C9_Witness ==
    /\ pc = "raised" /\ exc.kind = "ParseError"
    /\ Len(dumps) = 2 /\ ~dumps[2].wf /\ dumps[1].wf

(***************************************************************************)
(* C7.  When find_install_button has returned None for a package, no tap   *)
(* is run and no further dump is retrieved for it; the TypeError of the    *)
(* unpacking ends the package's install, main.install_from_playstore       *)
(* prints the failure marker and goes on with the next package.            *)
(***************************************************************************)
C7_NoButtonFailsThePackage ==
    (entry = "main" /\ button = None) =>
        /\ attempts = 5 /\ Count(DumpCmd) = 5 /\ Count(CatCmd) = 5
        /\ \A k \in DOMAIN log : log[k].argv[1] = "sleep" \/ log[k].argv[4] # "tap"
        /\ \/ pc = "i_click" /\ exc = NoExc
           \/ /\ pc \in {"i_loop", "done"}
              /\ exc = [kind |-> "TypeError", site |-> "i_click"]
              /\ LastPrint = "Failed!!!"
              /\ i >= 2 /\ to_install_from_playstore[i - 1] = Checked

\* the first package's button was not found; the loop is at the second package
C7_Witness ==
    /\ entry = "main" /\ button = None /\ pc = "i_loop" /\ i = 2
    /\ LastPrint = "Failed!!!"

====
